---------------------------- MODULE Spec2Model ----------------------------
(***************************************************************************)
(* A model of codegen/generate-docs.ts: the documentation generator that   *)
(* parses interface and type-alias declarations, registers them in the     *)
(* type map, renders them to markdown and writes them into a category tree.*)
(*                                                                         *)
(* Text is modelled as a sequence of one-character strings wherever the    *)
(* code inspects characters (titles, categories, tag comments, types).     *)
(* Document content is a sequence of tokens: the literal pieces of the     *)
(* code's template strings are one token each, a line break is the token   *)
(* NL, and interpolated text contributes its characters.                   *)
(***************************************************************************)
EXTENDS Integers, Sequences, FiniteSets, TLC

VARIABLES
    sources,          \* file -> the top-level statements the parser finds in it
    watchMode,        \* process.argv holds --watch or -w
    pc,               \* position of the script
    filePaths,        \* generateDocs: the filePaths argument of the running pass
    statements,       \* generateDocs: getStatementsWithSourceLocation's result
    cursor,           \* index of the next statement to map / info to write
    declarationInfos, \* generateDocs: the records of the pass
    globalTypeMap,    \* the Map, as its entries in insertion order
    files,            \* output tree: path -> content of every regular file
    dirs,             \* output tree: the directories below outputPath
    clock,            \* what new Date() reads
    passes,           \* watch callbacks dispatched so far
    failed,           \* the fs call that threw, once one has
    probe             \* argument and result of the function under test

vars == << sources, watchMode, pc, filePaths, statements, cursor,
           declarationInfos, globalTypeMap, files, dirs, clock, passes,
           failed, probe >>

-----------------------------------------------------------------------------
(* Bounds of the model *)

\* statements in the source tree
MaxStatements == 2
\* watch callbacks dispatched in one run
MaxWatchPasses == 1
\* length of a title / type text in the single-function specifications
MaxTextLen == 3

-----------------------------------------------------------------------------
(* Characters and strings *)

NL == "\n"

Uppers == << "A", "B", "C", "D", "E", "F", "G", "H", "I", "J", "K", "L", "M",
             "N", "O", "P", "Q", "R", "S", "T", "U", "V", "W", "X", "Y", "Z" >>

Lowers == << "a", "b", "c", "d", "e", "f", "g", "h", "i", "j", "k", "l", "m",
             "n", "o", "p", "q", "r", "s", "t", "u", "v", "w", "x", "y", "z" >>

Digits == << "0", "1", "2", "3", "4", "5", "6", "7", "8", "9" >>

Range(s) == { s[i] : i \in DOMAIN s }

\* the class [A-Z] of the split pattern
IsUpperAZ(c) == c \in Range(Uppers)

\* String.prototype.toLowerCase, one character
ToLowerChar(c) ==
    IF c \in Range(Uppers)
    THEN Lowers[CHOOSE i \in DOMAIN Uppers : Uppers[i] = c]
    ELSE c

ToLowerCase(s) == [i \in DOMAIN s |-> ToLowerChar(s[i])]

IsDigit(c) == c \in Range(Digits)

DigitValue(c) == (CHOOSE i \in DOMAIN Digits : Digits[i] = c) - 1

IsSpace(c) == c \in {" ", NL, "\t"}

RECURSIVE Concat(_)
\* the concatenation of a sequence of sequences
Concat(ss) == IF ss = << >> THEN << >> ELSE Head(ss) \o Concat(Tail(ss))

RECURSIVE Join(_, _)
\* Array.prototype.join
Join(parts, sep) ==
    IF parts = << >> THEN << >>
    ELSE IF Len(parts) = 1 THEN parts[1]
    ELSE parts[1] \o sep \o Join(Tail(parts), sep)

\* String.prototype.indexOf: the first position (1-based) where key occurs
\* in text, 0 when it does not occur
IndexOf(text, key) ==
    LET hits == { i \in 1..(Len(text) - Len(key) + 1) :
                     SubSeq(text, i, i + Len(key) - 1) = key }
    IN  IF hits = {} THEN 0
        ELSE CHOOSE i \in hits : \A j \in hits : i <= j

RECURSIVE TrimStart(_)
TrimStart(s) ==
    IF s # << >> /\ IsSpace(Head(s)) THEN TrimStart(Tail(s)) ELSE s

RECURSIVE TrimEnd(_)
TrimEnd(s) ==
    IF s # << >> /\ IsSpace(s[Len(s)])
    THEN TrimEnd(SubSeq(s, 1, Len(s) - 1)) ELSE s

\* String.prototype.trim
Trim(s) == TrimEnd(TrimStart(s))

\* String.prototype.replace(pattern: string, replacement): only the first
\* occurrence of the pattern is replaced
ReplaceFirst(text, key, replacement) ==
    LET i == IndexOf(text, key)
    IN  IF i = 0 THEN text
        ELSE SubSeq(text, 1, i - 1) \o replacement
             \o SubSeq(text, i + Len(key), Len(text))

RECURSIVE SplitBeforeUpper(_, _, _, _)
\* String.prototype.split(/(?=[A-Z])/), the loop of the split algorithm: p is
\* where the current piece starts, q the position tried (0-based as in the
\* algorithm); an empty match at q = p does not split
SplitBeforeUpper(s, p, q, acc) ==
    IF q >= Len(s) THEN Append(acc, SubSeq(s, p + 1, Len(s)))
    ELSE IF IsUpperAZ(s[q + 1]) /\ q # p
         THEN SplitBeforeUpper(s, q, q, Append(acc, SubSeq(s, p + 1, q)))
         ELSE SplitBeforeUpper(s, p, q + 1, acc)

-----------------------------------------------------------------------------
(* JSDoc tags *)

\* a tag's comment: ts.JSDocTag.comment is a string or undefined
NoComment == [defined |-> FALSE, text |-> << >>]
Comment(text) == [defined |-> TRUE, text |-> text]

Tag(name, comment) == [tagName |-> name, comment |-> comment]

\* tag.comment || ''
CommentOrEmpty(tag) == IF tag.comment.defined THEN tag.comment.text ELSE << >>

\* the text a template or += makes of tag.comment
CommentAsText(tag) ==
    IF tag.comment.defined THEN tag.comment.text
    ELSE << "u", "n", "d", "e", "f", "i", "n", "e", "d" >>

\* parseTags: the node's tags for which the matcher holds a function, in
\* the order in which parseTags calls it
ParseTags(tags, tagNames) ==
    SelectSeq(tags, LAMBDA tag : tag.tagName \in tagNames)

\* getDocsCategory: undefined when no @docsCategory tag is present
Undefined == [defined |-> FALSE, text |-> << >>]

\* getDocsCategory without the  || ''  on the tag's comment
getDocsCategoryOfComment(statement) ==
    LET called == ParseTags(statement.tags, {"docsCategory"})
    IN  IF called = << >> THEN Undefined ELSE called[Len(called)].comment

\* getDocsCategory: each call of the matcher assigns category, the last stays
getDocsCategory(statement) ==
    LET called == ParseTags(statement.tags, {"docsCategory"})
    IN  IF called = << >> THEN Undefined
        ELSE [defined |-> TRUE, text |-> CommentOrEmpty(called[Len(called)])]

\* a JavaScript number as far as the weight goes: an integer or NaN
Num(n) == [nan |-> FALSE, val |-> n]
NaN == [nan |-> TRUE, val |-> 0]

RECURSIVE DigitsValue(_, _)
\* the value of the longest prefix of digits of s, after acc
DigitsValue(s, acc) ==
    IF s # << >> /\ IsDigit(Head(s))
    THEN DigitsValue(Tail(s), 10 * acc + DigitValue(Head(s)))
    ELSE acc

\* Number.parseInt(text, 10): leading white space is skipped, a sign is read,
\* then the longest prefix of digits; NaN when there is none
ParseInt(text) ==
    LET t == TrimStart(text)
        signed == t # << >> /\ Head(t) \in {"+", "-"}
        body == IF signed THEN Tail(t) ELSE t
    IN  IF body = << >> \/ ~IsDigit(Head(body)) THEN NaN
        ELSE IF signed /\ Head(t) = "-" THEN Num(0 - DigitsValue(body, 0))
        ELSE Num(DigitsValue(body, 0))

DefaultWeight == 10

\* tag.comment || '10'
CommentOrTen(tag) ==
    IF tag.comment.defined /\ tag.comment.text # << >>
    THEN tag.comment.text ELSE << "1", "0" >>

\* getDeclarationWeight
getDeclarationWeight(statement) ==
    LET called == ParseTags(statement.tags, {"docsWeight"})
    IN  IF called = << >> THEN Num(DefaultWeight)
        ELSE ParseInt(CommentOrTen(called[Len(called)]))

\* getDeclarationDescription
getDeclarationDescription(statement) ==
    LET called == ParseTags(statement.tags, {"description"})
    IN  Concat([i \in DOMAIN called |-> CommentAsText(called[i])])

\* formatExampleCode: the replace of /\n\s+\*\s/g removes a line break, the
\* white space after it, an asterisk and the white space character after that
RECURSIVE StripAsterisks(_)
StripAsterisks(s) ==
    IF s = << >> THEN << >>
    ELSE LET rest == TrimStart(Tail(s))
         IN  IF /\ Head(s) = NL
                /\ Len(s) >= 2 /\ IsSpace(s[2])
                /\ Len(rest) >= 2 /\ rest[1] = "*" /\ IsSpace(rest[2])
             THEN StripAsterisks(SubSeq(rest, 3, Len(rest)))
             ELSE << Head(s) >> \o StripAsterisks(Tail(s))

formatExampleCode(tag) == << NL, NL >> \o StripAsterisks(CommentOrEmpty(tag))

\* a guard that lets every statement through
isValidDeclarationAny(statement) == statement.kind = statement.kind

\* isValidDeclaration
isValidDeclaration(statement) == statement.kind \in {"interface", "typeAlias"}

\* getDeclarationFullText
getDeclarationFullText(declaration) ==
    declaration.name
    \o (IF declaration.typeParameters = << >> THEN << >>
        ELSE << "<" >> \o Join(declaration.typeParameters, << ",", " " >>)
             \o << ">" >>)

\* parseMembers: property and method signatures in source order
parseMember(member) ==
    LET described == ParseTags(member.tags, {"description", "example"})
        defaults == ParseTags(member.tags, {"default"})
        text(tag) == IF tag.tagName = "description" THEN CommentOrEmpty(tag)
                     ELSE formatExampleCode(tag)
    IN  [ kind |-> member.kind,
          fullText |-> member.fullText,
          name |-> member.name,
          description |-> Concat([i \in DOMAIN described |-> text(described[i])]),
          type |-> Trim(member.type),
          defaultValue |->
              IF member.kind = "property" /\ defaults # << >>
              THEN CommentOrEmpty(defaults[Len(defaults)]) ELSE << >>,
          parameters |->
              IF member.kind = "method" THEN member.parameters ELSE << >> ]

parseMembers(members) ==
    LET kept == SelectSeq(members, LAMBDA m : m.kind \in {"property", "method"})
    IN  [i \in DOMAIN kept |-> parseMember(kept[i])]

\* a fileName split after each capital instead of before it
fileNameSplitAfter(title) ==
    LET piece(i) == << title[i] >>
                    \o (IF IsUpperAZ(title[i]) /\ i < Len(title)
                        THEN << "-" >> ELSE << >>)
    IN  ToLowerCase(Concat([i \in DOMAIN title |-> piece(i)]))

\* the fileName of parseDeclaration: title.split(/(?=[A-Z])/).join('-')
\* .toLowerCase()
fileNameOf(title) ==
    ToLowerCase(Join(SplitBeforeUpper(title, 0, 0, << >>), << "-" >>))

NoInfo == [kind |-> "undefined"]

\* parseDeclaration: NoInfo stands for the undefined it returns
parseDeclaration(statement, sourceFile, sourceLine) ==
    IF ~isValidDeclaration(statement) THEN NoInfo
    ELSE IF ~getDocsCategory(statement).defined THEN NoInfo
    ELSE [ kind |-> statement.kind,
           sourceFile |-> sourceFile,
           sourceLine |-> sourceLine,
           fullText |-> getDeclarationFullText(statement),
           title |-> statement.name,
           weight |-> getDeclarationWeight(statement),
           category |-> getDocsCategory(statement).text,
           description |-> getDeclarationDescription(statement),
           fileName |-> fileNameOf(statement.name),
           members |-> IF statement.kind = "interface"
                       THEN parseMembers(statement.members) ELSE << >>,
           type |-> IF statement.kind = "typeAlias"
                    THEN Trim(statement.type) ELSE << >> ]

-----------------------------------------------------------------------------
(* The type map: a JavaScript Map, iterated in insertion order *)

MapHas(map, key) == \E i \in DOMAIN map : map[i].key = key

MapIndex(map, key) == CHOOSE i \in DOMAIN map : map[i].key = key

MapGet(map, key) == map[MapIndex(map, key)].val

\* a set that leaves the value of a present key as it is
MapSetKeepsFirst(map, key, val) ==
    IF \E i \in DOMAIN map : map[i].key = key THEN map
    ELSE Append(map, [key |-> key, val |-> val])

\* Map.prototype.set: a present key keeps its place and takes the new value
MapSet(map, key, val) ==
    IF MapHas(map, key)
    THEN [map EXCEPT ![MapIndex(map, key)].val = val]
    ELSE Append(map, [key |-> key, val |-> val])

\* the value generateDocs registers for a record: category + '/' + fileName
typeMapValue(info) == info.category \o << "/" >> \o info.fileName

-----------------------------------------------------------------------------
(* Rendering *)

\* docsPath
docsPath == << "/", "d", "o", "c", "s", "/", "a", "p", "i", "/" >>

\* i => '&#' + i.charCodeAt(0) + ';' for the characters of [<>&]; the model's
\* alphabet holds no character of  -香
EncodeChar(c) ==
    CASE c = "<" -> << "&", "#", "6", "0", ";" >>
      [] c = ">" -> << "&", "#", "6", "2", ";" >>
      [] c = "&" -> << "&", "#", "3", "8", ";" >>
      [] OTHER   -> << c >>

EncodeEntities(s) == Concat([i \in DOMAIN s |-> EncodeChar(s[i])])

\* .replace(/\n/g, ' ')
NewlinesToSpaces(s) == [i \in DOMAIN s |-> IF s[i] = NL THEN " " ELSE s[i]]

\* the template  <a href='${docsPath}/${val}/'>${key}</a>
Anchor(key, val) ==
    << "<", "a", " ", "h", "r", "e", "f", "=", "'" >> \o docsPath \o << "/" >>
    \o val \o << "/", "'", ">" >> \o key \o << "<", "/", "a", ">" >>

\* renderType: the loop over the map's entries replaces, for each key in
\* insertion order, the first occurrence of the key in the text so far
renderType(type, knownTypeMap) ==
    LET typeText == NewlinesToSpaces(EncodeEntities(Trim(type)))
        step[i \in 0..Len(knownTypeMap)] ==
            IF i = 0 THEN typeText
            ELSE ReplaceFirst(step[i - 1], knownTypeMap[i].key,
                              Anchor(knownTypeMap[i].key, knownTypeMap[i].val))
    IN  step[Len(knownTypeMap)]

\* ${weight} in a template
NumberText(n) == IF n.nan THEN "NaN" ELSE ToString(n.val)

\* what makes a document a generated one: the last lines of the front matter
GeneratedMarker == << "generated: true", NL, "---", NL >>

\* generateFrontMatter; now is what new Date() reads
generateFrontMatter(title, weight, showToc, now) ==
    << "---", NL, "title: \"" >> \o title \o << "\"", NL,
       "weight: ", NumberText(weight), NL,
       "date: ", ToString(now), NL,
       "showtoc: ", IF showToc THEN "true" ELSE "false", NL >>
    \o GeneratedMarker
    \o << "<!-- This file was generated from the Vendure TypeScript source. Do not modify. Instead, re-run \"generate-docs\" -->", NL >>

\* the token of a markdown code fence (three backquotes)
Fence == "[fence]"

\* renderGenerationInfoShortcode
renderGenerationInfoShortcode(info) ==
    << "{{< generation-info sourceFile=\"", info.sourceFile,
       "\" sourceLine=\"", ToString(info.sourceLine), "\">}}", NL, NL >>

\* renderInterfaceSignature
renderInterfaceSignature(interfaceInfo) ==
    << Fence, "ts", NL, "interface " >> \o interfaceInfo.fullText \o << " {", NL >>
    \o Join([i \in DOMAIN interfaceInfo.members |->
                << "  " >> \o interfaceInfo.members[i].fullText], << NL >>)
    \o << NL, "}", NL, Fence, NL >>

\* the type attribute renderInterface gives a member
memberType(member, knownTypeMap) ==
    IF member.kind = "property" THEN renderType(member.type, knownTypeMap)
    ELSE << "(" >>
         \o Join([i \in DOMAIN member.parameters |->
                     member.parameters[i].name \o << ":", " " >>
                     \o renderType(member.parameters[i].type, knownTypeMap)],
                 << ",", " " >>)
         \o << ")", " ", "=", ">", " " >>
         \o renderType(member.type, knownTypeMap)

\* the section renderInterface writes for one member
renderMember(member, knownTypeMap) ==
    << "### " >> \o member.name \o << NL, NL >>
    \o << "{{< member-info kind=\"", member.kind, "\" type=\"" >>
    \o memberType(member, knownTypeMap) \o << "\" " >>
    \o (IF member.kind = "property" /\ member.defaultValue # << >>
        THEN << "default=\"" >> \o member.defaultValue \o << "\" " >>
        ELSE << >>)
    \o << ">}}", NL, NL >>
    \o member.description \o << NL, NL >>

\* renderInterface
renderInterface(interfaceInfo, knownTypeMap, now) ==
    generateFrontMatter(interfaceInfo.title, interfaceInfo.weight, TRUE, now)
    \o << NL, NL, "# " >> \o interfaceInfo.title \o << NL, NL >>
    \o renderGenerationInfoShortcode(interfaceInfo)
    \o interfaceInfo.description \o << NL, NL >>
    \o << "## Signature", NL, NL >>
    \o renderInterfaceSignature(interfaceInfo)
    \o << "## Members", NL, NL >>
    \o Concat([i \in DOMAIN interfaceInfo.members |->
                  renderMember(interfaceInfo.members[i], knownTypeMap)])

\* renderTypeAlias
renderTypeAlias(typeAliasInfo, knownTypeMap, now) ==
    generateFrontMatter(typeAliasInfo.title, typeAliasInfo.weight, TRUE, now)
    \o << NL, NL, "# " >> \o typeAliasInfo.title \o << NL, NL >>
    \o renderGenerationInfoShortcode(typeAliasInfo)
    \o typeAliasInfo.description \o << NL, NL >>
    \o << "## Signature", NL, NL >>
    \o << Fence, "ts", NL, "type " >> \o typeAliasInfo.fullText \o << " ", "=", " " >>
    \o typeAliasInfo.type \o << ";", NL, Fence >>

\* the switch of generateDocs on info.kind
renderMarkdown(info, typeMap, now) ==
    IF info.kind = "interface" THEN renderInterface(info, typeMap, now)
    ELSE renderTypeAlias(info, typeMap, now)

\* an index document of the heading alone, without front matter
indexFileContentBare(info, now) == << "# " >> \o info.category

\* the content generateDocs gives a category's index document
indexFileContent(info, now) ==
    generateFrontMatter(info.category, Num(DefaultWeight), FALSE, now)
    \o << NL, NL, "# " >> \o info.category

-----------------------------------------------------------------------------
(* The output tree.  A path is the sequence of its segments below          *)
(* outputPath; the categories of the model hold no separator.              *)

\* a test for the first line of the marker alone
isGeneratedByFirstLine(content) == "generated: true" \in Range(content)

\* isGenerated: /generated\: true\n---\n/.test(content)
isGenerated(content) == IndexOf(content, GeneratedMarker) # 0

MdExt == << ".", "m", "d" >>

IndexName == << "_", "i", "n", "d", "e", "x" >> \o MdExt

\* path.join(hugoApiDocsPath, info.category): an empty category adds nothing
categoryDir(info) ==
    IF info.category = << >> THEN << >> ELSE << info.category >>

\* path.join(categoryDir, '_index.md')
indexFile(info) == Append(categoryDir(info), IndexName)

\* path.join(categoryDir, info.fileName + '.md')
docFile(info) == Append(categoryDir(info), info.fileName \o MdExt)

\* fs.existsSync, for a path below outputPath (which exists)
existsSync(path, fileMap, dirSet) ==
    path = << >> \/ path \in dirSet \/ path \in DOMAIN fileMap

\* fs.writeFileSync
writeFile(fileMap, path, content) ==
    [q \in DOMAIN fileMap \cup {path} |->
        IF q = path THEN content ELSE fileMap[q]]

\* deleteGeneratedDocs: every file klawSync lists is read, and unlinked when
\* isGenerated accepts its content
deleteGeneratedDocs(fileMap) ==
    [q \in { r \in DOMAIN fileMap : ~isGenerated(fileMap[r]) } |-> fileMap[q]]

-----------------------------------------------------------------------------
(* Inputs: the source files and the output tree the script finds *)

\* sf.fileName from '/server/src' on, for each of tsFiles
FileNames == << "/server/src/a.ts", "/server/src/b.ts" >>

Files == DOMAIN FileNames

Statement(kind, name, tags, members, type) ==
    [ kind |-> kind, name |-> name, typeParameters |-> << >>, tags |-> tags,
      members |-> members, type |-> type ]

Member(kind, name, tags, type, parameters, fullText) ==
    [ kind |-> kind, name |-> name, tags |-> tags, type |-> type,
      parameters |-> parameters, fullText |-> fullText ]

CategoryC == << "c" >>
CategoryD == << "d" >>
TitleAb == << "A", "b" >>
TitleCd == << "C", "d" >>

\* interface Ab { p: Cd }, @docsCategory c, a description and a default
InterfaceAb ==
    Statement("interface", TitleAb,
        << Tag("docsCategory", Comment(CategoryC)),
           Tag("description", Comment(<< "x" >>)) >>,
        << Member("property", << "p" >>,
                  << Tag("default", Comment(<< "5" >>)) >>, TitleCd, << >>,
                  << "p", ":", " ", "C", "d" >>) >>,
        << >>)

\* interface Cd { m(a: Ab): Ab }, @docsCategory c, @docsWeight 5
InterfaceCd ==
    Statement("interface", TitleCd,
        << Tag("docsCategory", Comment(CategoryC)),
           Tag("docsWeight", Comment(<< "5" >>)) >>,
        << Member("method", << "m" >>, << >>, TitleAb,
                  << [name |-> << "a" >>, type |-> TitleAb] >>,
                  << "m", "(", "a", ":", " ", "A", "b", ")", ":", " ", "A", "b" >>) >>,
        << >>)

\* type Ab = Cd<Ab>, @docsCategory d: the title of InterfaceAb in another
\* category
AliasAb ==
    Statement("typeAlias", TitleAb,
        << Tag("docsCategory", Comment(CategoryD)) >>, << >>,
        << "C", "d", "<", "A", "b", ">" >>)

\* interface Ef { q: Ab } with a description and no @docsCategory
InterfaceUntagged ==
    Statement("interface", << "E", "f" >>,
        << Tag("description", Comment(<< "y" >>)) >>,
        << Member("property", << "q" >>, << >>, TitleAb, << >>,
                  << "q", ":", " ", "A", "b" >>) >>,
        << >>)

\* class Cd {} carrying @docsCategory c: neither an interface nor an alias
ClassCd ==
    Statement("class", TitleCd,
        << Tag("docsCategory", Comment(CategoryC)) >>, << >>, << >>)

\* interface Gh {} with a bare @docsCategory
InterfaceBareTag ==
    Statement("interface", << "G", "h" >>,
        << Tag("docsCategory", NoComment) >>, << >>, << >>)

\* type _index = Ab, @docsCategory c
AliasIndex ==
    Statement("typeAlias", << "_", "i", "n", "d", "e", "x" >>,
        << Tag("docsCategory", Comment(CategoryC)) >>, << >>, TitleAb)

StatementPool ==
    { InterfaceAb, InterfaceCd, AliasAb, InterfaceUntagged, ClassCd,
      InterfaceBareTag, AliasIndex }

\* the sequences over S of length at most n
SeqsUpTo(S, n) == UNION { [1..k -> S] : k \in 0..n }

\* what a source file may hold
SourceTexts == SeqsUpTo(StatementPool, MaxStatements)

RECURSIVE SumOfLens(_, _)
SumOfLens(texts, fs) ==
    IF fs = {} THEN 0
    ELSE LET f == CHOOSE g \in fs : TRUE
         IN  Len(texts[f]) + SumOfLens(texts, fs \ {f})

\* the source trees of the model
SourceTrees ==
    { texts \in [Files -> SourceTexts] : SumOfLens(texts, Files) <= MaxStatements }

\* what a watched file may hold after an edit
EditedTexts == { << >>, << InterfaceCd >>, << AliasIndex >> }

HandWritten == << "# Notes", NL, "written by hand", NL >>

\* ends with the marker's first three tokens: no line break follows the dashes
NearMarker == << "---", NL, "generated: true", NL, "---" >>

StaleDoc ==
    generateFrontMatter(<< "O", "l", "d" >>, Num(DefaultWeight), TRUE, 0)
    \o << NL, NL, "# ", "O", "l", "d", NL, NL >>

StaleIndex ==
    generateFrontMatter(CategoryC, Num(DefaultWeight), FALSE, 0)
    \o << NL, NL, "# " >> \o CategoryC

NotesName == << "n", "o", "t", "e", "s" >> \o MdExt
OldName == << "o", "l", "d" >> \o MdExt

EmptyTree == [files |-> << >>, dirs |-> {}]

\* a category with a stale generated document of the title Ab, a page
\* written by hand and an index written by hand
TreeByHand ==
    [ files |-> (<< CategoryC, fileNameOf(TitleAb) \o MdExt >> :> StaleDoc)
                @@ (<< CategoryC, NotesName >> :> HandWritten)
                @@ (<< CategoryC, IndexName >> :> HandWritten),
      dirs |-> { << CategoryC >> } ]

\* the tree an earlier run left: generated index and document, and beside
\* them a page by hand that nearly holds the marker
TreeOfEarlierRun ==
    [ files |-> (<< CategoryC, IndexName >> :> StaleIndex)
                @@ (<< CategoryC, OldName >> :> StaleDoc)
                @@ (<< CategoryD, OldName >> :> NearMarker)
                @@ (<< NotesName >> :> HandWritten),
      dirs |-> { << CategoryC >>, << CategoryD >> } ]

OutputTrees == { EmptyTree, TreeByHand, TreeOfEarlierRun }

NoProbe == [fn |-> "none"]

-----------------------------------------------------------------------------
(* The script *)

\* a listing that takes the files from the last to the first
getStatementsLastFileFirst(paths, texts) ==
    Concat([k \in DOMAIN paths |->
        [i \in DOMAIN texts[paths[Len(paths) + 1 - k]] |->
            [ statement |-> texts[paths[Len(paths) + 1 - k]][i],
              sourceFile |-> FileNames[paths[Len(paths) + 1 - k]],
              sourceLine |-> i ]]])

\* getStatementsWithSourceLocation: the statements of the files in order,
\* each with its file and its line (a file's i-th statement starts line i)
getStatementsWithSourceLocation(paths, texts) ==
    Concat([k \in DOMAIN paths |->
        [i \in DOMAIN texts[paths[k]] |->
            [ statement |-> texts[paths[k]][i],
              sourceFile |-> FileNames[paths[k]],
              sourceLine |-> i ]]])

Init ==
    /\ sources \in SourceTrees
    /\ watchMode \in BOOLEAN
    /\ pc = "main"
    /\ filePaths = << >>
    /\ statements = << >>
    /\ cursor = 0
    /\ declarationInfos = << >>
    /\ globalTypeMap = << >>
    /\ \E tree \in OutputTrees : files = tree.files /\ dirs = tree.dirs
    /\ clock = 1
    /\ passes = 0
    /\ failed = "none"
    /\ probe = NoProbe

\* line 70: deleteGeneratedDocs()
DeleteGeneratedDocs ==
    /\ pc = "main"
    /\ files' = deleteGeneratedDocs(files)
    /\ pc' = "generate"
    /\ UNCHANGED << sources, watchMode, filePaths, statements, cursor,
                    declarationInfos, globalTypeMap, dirs, clock, passes,
                    failed, probe >>

\* generateDocs, lines 110-120: the files are read and parsed, their
\* statements listed
enterGenerateDocs(paths, texts) ==
    /\ filePaths' = paths
    /\ statements' = getStatementsWithSourceLocation(paths, texts)
    /\ declarationInfos' = << >>
    /\ cursor' = 1
    /\ pc' = "map"

\* line 71: generateDocs(tsFiles, outputPath, globalTypeMap)
GenerateAll ==
    /\ pc = "generate"
    /\ enterGenerateDocs([f \in Files |-> f], sources)
    /\ UNCHANGED << sources, watchMode, globalTypeMap, files, dirs, clock,
                    passes, failed, probe >>

\* a pass that leaves the registration out of the map callback
registerLater(typeMap, info) == typeMap

\* typeMap.set(info.title, info.category + '/' + info.fileName)
register(typeMap, info) == MapSet(typeMap, info.title, typeMapValue(info))

\* lines 123-129: the callback of statements.map for one statement
MapStatement ==
    /\ pc = "map"
    /\ cursor <= Len(statements)
    /\ LET st == statements[cursor]
           info == parseDeclaration(st.statement, st.sourceFile, st.sourceLine)
       IN  /\ globalTypeMap' = IF info.kind # "undefined"
                               THEN register(globalTypeMap, info)
                               ELSE globalTypeMap
           /\ declarationInfos' = Append(declarationInfos, info)
    /\ cursor' = cursor + 1
    /\ UNCHANGED << sources, watchMode, pc, filePaths, statements, files,
                    dirs, clock, passes, failed, probe >>

\* line 130: .filter(notNullOrUndefined)
FilterInfos ==
    /\ pc = "map"
    /\ cursor > Len(statements)
    /\ declarationInfos' =
           SelectSeq(declarationInfos, LAMBDA info : info.kind # "undefined")
    /\ cursor' = 1
    /\ pc' = "write"
    /\ UNCHANGED << sources, watchMode, filePaths, statements, globalTypeMap,
                    files, dirs, clock, passes, failed, probe >>

\* lines 145-147: the directories once the category's directory is ensured
ensureDir(info, dirSet, fileMap) ==
    IF existsSync(categoryDir(info), fileMap, dirSet) THEN dirSet
    ELSE dirSet \cup { categoryDir(info) }

\* lines 148-151: the files once the category's index document is ensured
ensureIndex(info, fileMap, dirSet, now) ==
    IF existsSync(indexFile(info), fileMap, dirSet) THEN fileMap
    ELSE writeFile(fileMap, indexFile(info), indexFileContent(info, now))

\* line 153: the document is written
writeDoc(info, fileMap, typeMap, now) ==
    writeFile(fileMap, docFile(info), renderMarkdown(info, typeMap, now))

\* lines 132-154: one turn of the loop over declarationInfos, no call throwing
WriteInfo ==
    /\ pc = "write"
    /\ cursor <= Len(declarationInfos)
    /\ LET info == declarationInfos[cursor]
       IN  /\ categoryDir(info) \notin DOMAIN files
           /\ dirs' = ensureDir(info, dirs, files)
           /\ files' = writeDoc(info, ensureIndex(info, files, dirs', clock),
                                globalTypeMap, clock)
    /\ cursor' = cursor + 1
    /\ UNCHANGED << sources, watchMode, pc, filePaths, statements,
                    declarationInfos, globalTypeMap, clock, passes, failed,
                    probe >>

\* one turn of the loop in which an fs call throws: what the calls before it
\* did stays done, and the exception leaves generateDocs and ends the script
WriteInfoThrows ==
    /\ pc = "write"
    /\ cursor <= Len(declarationInfos)
    /\ LET info == declarationInfos[cursor]
           made == ensureDir(info, dirs, files)
       IN  \/ /\ made # dirs
              /\ failed' = "mkdirSync"
              /\ UNCHANGED << dirs, files >>
           \/ /\ ~existsSync(indexFile(info), files, made)
              /\ failed' = "writeFileSync index"
              /\ dirs' = made
              /\ UNCHANGED files
           \/ /\ failed' = "writeFileSync"
              /\ dirs' = made
              /\ files' = ensureIndex(info, files, made, clock)
    /\ pc' = "crashed"
    /\ UNCHANGED << sources, watchMode, filePaths, statements, cursor,
                    declarationInfos, globalTypeMap, clock, passes, probe >>

\* lines 156-159 and the return: after the first pass the script watches the
\* files or ends; a watch callback returns to the event loop
LeaveGenerateDocs ==
    /\ pc = "write"
    /\ cursor > Len(declarationInfos)
    /\ pc' = IF watchMode THEN "idle" ELSE "exit"
    /\ UNCHANGED << sources, watchMode, filePaths, statements, cursor,
                    declarationInfos, globalTypeMap, files, dirs, clock,
                    passes, failed, probe >>

\* a listener that would run whatever the script is doing at the moment
WatchFileAnyTime(file) ==
    /\ pc \in {"idle", "map", "write"}
    /\ watchMode
    /\ passes < MaxWatchPasses
    /\ \E text \in EditedTexts :
          /\ sources' = [sources EXCEPT ![file] = text]
          /\ enterGenerateDocs(<< file >>, sources')
    /\ clock' = clock + 1
    /\ passes' = passes + 1
    /\ UNCHANGED << watchMode, globalTypeMap, files, dirs, failed, probe >>

\* lines 76-78: a watched file was saved with new text and its listener calls
\* generateDocs([file], outputPath, globalTypeMap); the event loop runs a
\* listener only when no other code runs
WatchFile(file) ==
    /\ pc = "idle"
    /\ passes < MaxWatchPasses
    /\ \E text \in EditedTexts :
          /\ sources' = [sources EXCEPT ![file] = text]
          /\ enterGenerateDocs(<< file >>, sources')
    /\ clock' = clock + 1
    /\ passes' = passes + 1
    /\ UNCHANGED << watchMode, globalTypeMap, files, dirs, failed, probe >>

Next ==
    \/ DeleteGeneratedDocs
    \/ GenerateAll
    \/ MapStatement
    \/ FilterInfos
    \/ WriteInfo
    \/ WriteInfoThrows
    \/ LeaveGenerateDocs
    \/ \E file \in Files : WatchFile(file)

Spec == Init /\ [][Next]_vars

-----------------------------------------------------------------------------
(* What the properties speak of *)

\* generateDocs has returned
PassCompleted == pc \in {"idle", "exit"}

\* the loop over declarationInfos is running or has run
InWritePhase == pc \in {"write", "crashed", "idle", "exit"}

\* the records whose document the running or last pass has written
WrittenInfos == IF InWritePhase THEN 1..(cursor - 1) ELSE {}

\* the statements the map callback has seen
MappedStatements ==
    IF pc = "map" THEN 1..(cursor - 1)
    ELSE IF InWritePhase THEN DOMAIN statements ELSE {}

\* the @docsCategory tags a statement carries
CategoryTags(statement) ==
    { i \in DOMAIN statement.tags : statement.tags[i].tagName = "docsCategory" }

CarriesCategoryTag(statement) == CategoryTags(statement) # {}

\* the statement carries @docsCategory with text
CarriesCategoryText(statement) ==
    \E i \in CategoryTags(statement) :
        /\ \A j \in CategoryTags(statement) : j <= i
        /\ statement.tags[i].comment.defined
        /\ statement.tags[i].comment.text # << >>

IsDeclaration(statement) ==
    statement.kind = "interface" \/ statement.kind = "typeAlias"

\* the record was made from the k-th statement of the pass
RecordOf(info, k) ==
    /\ info.kind # "undefined"
    /\ info.sourceFile = statements[k].sourceFile
    /\ info.sourceLine = statements[k].sourceLine

\* the statement of the pass a record was made from
StatementOf(info) ==
    statements[CHOOSE k \in DOMAIN statements : RecordOf(info, k)].statement

\* a document has been written for the k-th statement of the pass
HasDocument(k) ==
    \E i \in WrittenInfos :
        /\ RecordOf(declarationInfos[i], k)
        /\ docFile(declarationInfos[i]) \in DOMAIN files

\* the content holds the lines  generated: true  and  ---  each followed by
\* a line break
HoldsMarker(content) ==
    \E i \in 1..(Len(content) - 3) :
        /\ content[i] = "generated: true" /\ content[i + 1] = NL
        /\ content[i + 2] = "---" /\ content[i + 3] = NL

\* the path of a category's index document
IsIndexPath(path) == path # << >> /\ path[Len(path)] = IndexName

-----------------------------------------------------------------------------
(* C1 *)

\* C1 as stated: when a pass has completed, each interface or type alias
\* handed to it has a document if and only if it carries @docsCategory with
\* non-empty text.
C1_DocumentIffCategoryText ==
    PassCompleted =>
        \A k \in DOMAIN statements :
            IsDeclaration(statements[k].statement) =>
                (HasDocument(k) <=> CarriesCategoryText(statements[k].statement))

\* C1 amended: a document is written for a declaration only if it carries
\* a @docsCategory tag, and when the pass has completed every interface or
\* type alias carrying the tag, with text or bare, has its document.
C1_DocumentIffCategoryTag ==
    \A k \in DOMAIN statements :
        /\ HasDocument(k) =>
               /\ IsDeclaration(statements[k].statement)
               /\ CarriesCategoryTag(statements[k].statement)
        /\ ( /\ PassCompleted
             /\ IsDeclaration(statements[k].statement)
             /\ CarriesCategoryTag(statements[k].statement) ) => HasDocument(k)

\* a completed pass wrote the document of a declaration with a bare tag
\* under the output root and none for an untagged interface
C1_Witness ==
    /\ PassCompleted
    /\ \E k \in DOMAIN statements :
          /\ statements[k].statement = InterfaceBareTag
          /\ HasDocument(k)
          /\ << fileNameOf(InterfaceBareTag.name) \o MdExt >> \in DOMAIN files
    /\ \E k \in DOMAIN statements :
          /\ statements[k].statement = InterfaceUntagged
          /\ ~HasDocument(k)

-----------------------------------------------------------------------------
(* C2 *)

\* the statement yields no record: it is no interface or type alias, or it
\* carries no @docsCategory tag
Undocumented(statement) ==
    ~IsDeclaration(statement) \/ ~CarriesCategoryTag(statement)

\* C2: the map callback of a statement that has no category tag, or is
\* neither an interface nor a type alias, changes neither the type map nor
\* the output tree and yields no record; and every turn of the write loop
\* that changes the output tree writes for a record made from a declaration
\* that carries the tag.
C2_UndocumentedLeavesNoTrace ==
    [][ /\ ( /\ pc = "map"
             /\ cursor <= Len(statements)
             /\ Undocumented(statements[cursor].statement) )
           => /\ globalTypeMap' = globalTypeMap
              /\ files' = files
              /\ dirs' = dirs
              /\ declarationInfos'[cursor].kind = "undefined"
        /\ ( /\ pc = "write"
             /\ (files' # files \/ dirs' # dirs) )
           => ~Undocumented(StatementOf(declarationInfos[cursor]))
        /\ pc' = "write" =>
              \A i \in DOMAIN declarationInfos' :
                  ~Undocumented(StatementOf(declarationInfos'[i]))
      ]_vars

\* a pass over an untagged interface and a tagged class has completed and
\* left the type map empty
C2_Witness ==
    /\ PassCompleted
    /\ \E k \in DOMAIN statements : statements[k].statement = InterfaceUntagged
    /\ \E k \in DOMAIN statements : statements[k].statement = ClassCd
    /\ globalTypeMap = << >>
    /\ declarationInfos = << >>

-----------------------------------------------------------------------------
(* C3 *)

\* the last record of the pass with the title of record i
LastOfTitle(i) ==
    CHOOSE j \in DOMAIN declarationInfos :
        /\ declarationInfos[j].title = declarationInfos[i].title
        /\ \A k \in DOMAIN declarationInfos :
              declarationInfos[k].title = declarationInfos[i].title => k <= j

\* the last written record of the pass whose document has the path of
\* record i's
LastWrittenAt(i) ==
    CHOOSE j \in WrittenInfos :
        /\ docFile(declarationInfos[j]) = docFile(declarationInfos[i])
        /\ \A k \in WrittenInfos :
              docFile(declarationInfos[k]) = docFile(declarationInfos[i])
                  => k <= j

\* C3: from the first turn of the write loop on, the title of every record
\* of the pass is registered with the path of the last record of that title,
\* and every document the pass has written is the rendering of its record
\* against that complete map, whatever the order of the declarations.
C3_RegisteredBeforeRender ==
    InWritePhase =>
        /\ \A i \in DOMAIN declarationInfos :
              /\ MapHas(globalTypeMap, declarationInfos[i].title)
              /\ MapGet(globalTypeMap, declarationInfos[i].title)
                     = typeMapValue(declarationInfos[LastOfTitle(i)])
        /\ \A i \in WrittenInfos :
              files[docFile(declarationInfos[i])]
                  = renderMarkdown(declarationInfos[LastWrittenAt(i)],
                                   globalTypeMap, clock)

\* Ab, processed first, refers to Cd of the other file, processed after it,
\* and the document of Ab links to the document of Cd
C3_Witness ==
    /\ PassCompleted
    /\ Len(declarationInfos) = 2
    /\ declarationInfos[1].title = TitleAb
    /\ declarationInfos[2].title = TitleCd
    /\ declarationInfos[1].sourceFile # declarationInfos[2].sourceFile
    /\ IndexOf(files[docFile(declarationInfos[1])],
               Anchor(TitleCd, CategoryC \o << "/" >> \o fileNameOf(TitleCd))) # 0

-----------------------------------------------------------------------------
(* C4 *)

\* C4: deleteGeneratedDocs removes every file whose content holds the
\* marker, and leaves every other file in place with its content, and the
\* directories as they were.
C4_DeletesExactlyGenerated ==
    [][ (pc = "main" /\ pc' = "generate") =>
            /\ \A p \in DOMAIN files :
                  IF HoldsMarker(files[p])
                  THEN p \notin DOMAIN files'
                  ELSE p \in DOMAIN files' /\ files'[p] = files[p]
            /\ DOMAIN files' \subseteq DOMAIN files
            /\ dirs' = dirs
      ]_vars

\* after the pre-pass over the tree of an earlier run the generated index and
\* document are gone and the pages by hand are there, the one that nearly
\* holds the marker among them
C4_Witness ==
    /\ pc = "generate"
    /\ DOMAIN files = { << CategoryD, OldName >>, << NotesName >> }
    /\ files[<< CategoryD, OldName >>] = NearMarker

-----------------------------------------------------------------------------
(* C5 *)

\* C5 as stated: once generation has begun, an index document that exists
\* stays in place with its content at every step.
C5_IndexNeverRewritten ==
    [][ pc # "main" =>
            \A p \in DOMAIN files :
                IsIndexPath(p) => p \in DOMAIN files' /\ files'[p] = files[p]
      ]_vars

-----------------------------------------------------------------------------
(* C6 *)

\* C6 as stated: when a pass has completed and two of its records have the
\* same title, the index entry of the title holds the path of the last
\* record of that title and the earlier record's document holds the
\* rendering of that last record.
C6_LastTakesIndexAndFile ==
    PassCompleted =>
        \A i, j \in DOMAIN declarationInfos :
            (i < j /\ declarationInfos[i].title = declarationInfos[j].title) =>
                /\ MapGet(globalTypeMap, declarationInfos[i].title)
                       = typeMapValue(declarationInfos[LastOfTitle(i)])
                /\ files[docFile(declarationInfos[i])]
                       = renderMarkdown(declarationInfos[LastOfTitle(i)],
                                        globalTypeMap, clock)

\* C6 amended: when a pass has completed and two of its records have the
\* same title, the index entry of the title holds the path of the last
\* record of that title; if the two have the same category they share one
\* document path, which holds a later record's rendering, and if their
\* categories differ they have different paths and the earlier one's path
\* still holds a document of its own category.
C6_LastTakesIndexAndFileOfItsCategory ==
    PassCompleted =>
        \A i, j \in DOMAIN declarationInfos :
            (i < j /\ declarationInfos[i].title = declarationInfos[j].title) =>
                /\ MapGet(globalTypeMap, declarationInfos[i].title)
                       = typeMapValue(declarationInfos[LastOfTitle(i)])
                /\ files[docFile(declarationInfos[i])]
                       = renderMarkdown(declarationInfos[LastWrittenAt(i)],
                                        globalTypeMap, clock)
                /\ IF declarationInfos[i].category = declarationInfos[j].category
                   THEN /\ docFile(declarationInfos[i]) = docFile(declarationInfos[j])
                        /\ LastWrittenAt(i) >= j
                   ELSE /\ docFile(declarationInfos[i]) # docFile(declarationInfos[j])
                        /\ declarationInfos[LastWrittenAt(i)].category
                               = declarationInfos[i].category

\* a completed pass over the interface Ab of category c and then the alias
\* Ab of category d: the index points at d/ab and both documents are there
C6_Witness ==
    /\ PassCompleted
    /\ Len(declarationInfos) = 2
    /\ declarationInfos[1].title = TitleAb /\ declarationInfos[1].category = CategoryC
    /\ declarationInfos[2].title = TitleAb /\ declarationInfos[2].category = CategoryD
    /\ MapGet(globalTypeMap, TitleAb) = CategoryD \o << "/", "a", "b" >>
    /\ files[<< CategoryC, << "a", "b" >> \o MdExt >>]
           = renderMarkdown(declarationInfos[1], globalTypeMap, clock)
    /\ files[<< CategoryD, << "a", "b" >> \o MdExt >>]
           = renderMarkdown(declarationInfos[2], globalTypeMap, clock)

-----------------------------------------------------------------------------
(* C10 *)

\* C10 as stated: when an fs call has thrown for a declaration of one file,
\* the documents of the pass's declarations of the other files are written.
C10_OtherFilesStillWritten ==
    pc = "crashed" =>
        \A i \in DOMAIN declarationInfos :
            declarationInfos[i].sourceFile # declarationInfos[cursor].sourceFile
                => i \in WrittenInfos

-----------------------------------------------------------------------------
(* C11 *)

\* the place of a statement's file in the list handed to generateDocs
FilePosition(k) ==
    CHOOSE p \in DOMAIN filePaths :
        FileNames[filePaths[p]] = statements[k].sourceFile

\* the record parseDeclaration makes of the k-th statement of the pass
RecordAt(k) ==
    parseDeclaration(statements[k].statement, statements[k].sourceFile,
                     statements[k].sourceLine)

\* the records of all statements of all files of the pass
AllRecords ==
    SelectSeq([k \in DOMAIN statements |-> RecordAt(k)],
              LAMBDA info : info.kind # "undefined")

\* the statements stand file after file, each file's in line order
StatementsInFileOrder ==
    \A m, k \in DOMAIN statements :
        m < k =>
            \/ FilePosition(m) < FilePosition(k)
            \/ /\ FilePosition(m) = FilePosition(k)
               /\ statements[m].sourceLine < statements[k].sourceLine

\* C11 as stated: when the map callback has seen a statement of a file,
\* every documented declaration of the files before it in the list has its
\* document written.
C11_FileByFile ==
    \A k \in MappedStatements :
        \A m \in DOMAIN statements :
            ( /\ FilePosition(m) < FilePosition(k)
              /\ RecordAt(m).kind # "undefined" ) => HasDocument(m)

\* C11 amended: a pass runs in phases over the whole batch. The statements
\* of all files are listed file after file; the map callback extracts them
\* one at a time in that order and writes nothing; a document is written
\* only when the records of all statements of all files are extracted, and
\* the documents are written one record at a time in the same order.
C11_PhaseByPhase ==
    [][ /\ StatementsInFileOrder'
        /\ (pc = "map" /\ pc' = "map") =>
               /\ declarationInfos' = Append(declarationInfos, RecordAt(cursor))
               /\ cursor' = cursor + 1
               /\ files' = files /\ dirs' = dirs
        /\ (pc # "main" /\ (files' # files \/ dirs' # dirs)) =>
               /\ pc = "write"
               /\ declarationInfos = AllRecords
        /\ (pc = "write" /\ pc' = "write") =>
               /\ declarationInfos = AllRecords
               /\ cursor' = cursor + 1
               /\ docFile(declarationInfos[cursor]) \in DOMAIN files'
               /\ files'[docFile(declarationInfos[cursor])]
                      = renderMarkdown(declarationInfos[cursor],
                                       globalTypeMap, clock)
               /\ \A path \in DOMAIN files' :
                      path \notin { docFile(declarationInfos[cursor]),
                                    indexFile(declarationInfos[cursor]) }
                          => path \in DOMAIN files /\ files'[path] = files[path]
      ]_vars

\* the first file's declaration has its document and the second file's,
\* extracted before that document was written, has none yet
C11_Witness ==
    /\ pc = "write"
    /\ cursor = 2
    /\ Len(declarationInfos) = 2
    /\ declarationInfos = AllRecords
    /\ declarationInfos[1].sourceFile # declarationInfos[2].sourceFile
    /\ docFile(declarationInfos[1]) \in DOMAIN files
    /\ files[docFile(declarationInfos[1])]
           = renderMarkdown(declarationInfos[1], globalTypeMap, clock)
    /\ docFile(declarationInfos[2]) \notin DOMAIN files

-----------------------------------------------------------------------------
(* C12 *)

\* generateDocs is running
PassRunning == pc \in {"map", "write"}

-----------------------------------------------------------------------------
(* C13 *)

\* what a deleteGeneratedDocs pre-pass would leave of a tree
Survivors(fileMap) == deleteGeneratedDocs(fileMap)

\* C13: at every step of generation each file the step creates or rewrites,
\* document or index document, holds content isGenerated accepts, so a
\* pre-pass would delete it; and what a pre-pass would leave never grows or
\* changes: every file it would leave after the step is a file it would
\* have left before the step, with the same content.
C13_WrittenFilesAreGenerated ==
    [][ pc # "main" =>
            /\ \A path \in DOMAIN files' :
                   (path \notin DOMAIN files \/ files'[path] # files[path]) =>
                       /\ isGenerated(files'[path])
                       /\ HoldsMarker(files'[path])
                       /\ path \notin DOMAIN Survivors(files')
            /\ \A path \in DOMAIN Survivors(files') :
                   /\ path \in DOMAIN Survivors(files)
                   /\ files'[path] = files[path]
      ]_vars

\* after the first pass and a watch pass the tree holds a generated index
\* document and a generated document, both of which a pre-pass would
\* delete, beside a page written by hand, which it would leave
C13_Witness ==
    /\ pc = "idle"
    /\ passes = 1
    /\ \E p, q \in DOMAIN files :
          /\ IsIndexPath(p) /\ ~IsIndexPath(q)
          /\ isGenerated(files[p]) /\ isGenerated(files[q])
          /\ p \notin DOMAIN Survivors(files)
          /\ q \notin DOMAIN Survivors(files)
    /\ \E h \in DOMAIN Survivors(files) : files[h] = HandWritten

-----------------------------------------------------------------------------
(* One declaration of any title, tag and weight through the script *)

TitleAlphabet == { "A", "B", "c" }

WideTitles == SeqsUpTo(TitleAlphabet, MaxTextLen) \ { << >> }

CategoryTagChoices ==
    { << >>,
      << Tag("docsCategory", NoComment) >>,
      << Tag("docsCategory", Comment(CategoryC)) >> }

WeightTagChoices ==
    { << >>,
      << Tag("docsWeight", NoComment) >>,
      << Tag("docsWeight", Comment(<< "5" >>)) >>,
      << Tag("docsWeight", Comment(<< "-", "3" >>)) >>,
      << Tag("docsWeight", Comment(<< "1", "2" >>)) >>,
      << Tag("docsWeight", Comment(<< "a", "b", "c" >>)) >>,
      << Tag("docsWeight", Comment(<< "7", "x" >>)) >> }

DeclarationOf(kind, title, tags) ==
    Statement(kind, title, tags, << >>,
              IF kind = "typeAlias" THEN TitleCd ELSE << >>)

WideStatements ==
    { DeclarationOf(kind, title, tags) :
          kind \in {"interface", "typeAlias"}, title \in WideTitles,
          tags \in CategoryTagChoices }
    \cup
    { DeclarationOf(kind, TitleAb,
                    << Tag("docsCategory", Comment(CategoryC)) >> \o tags) :
          kind \in {"interface", "typeAlias"}, tags \in WeightTagChoices }

InitDeclaration ==
    /\ \E st \in WideStatements :
          sources = [f \in Files |-> IF f = 1 THEN << st >> ELSE << >>]
    /\ watchMode \in BOOLEAN
    /\ pc = "main"
    /\ filePaths = << >>
    /\ statements = << >>
    /\ cursor = 0
    /\ declarationInfos = << >>
    /\ globalTypeMap = << >>
    /\ files = EmptyTree.files
    /\ dirs = EmptyTree.dirs
    /\ clock = 1
    /\ passes = 0
    /\ failed = "none"
    /\ probe = NoProbe

SpecDeclaration == InitDeclaration /\ [][Next]_vars

-----------------------------------------------------------------------------
(* C8 *)

\* the title with a hyphen before every capital but a leading one, in lower
\* case
Slug(title) ==
    Concat([i \in DOMAIN title |->
        (IF i > 1 /\ title[i] \in Range(Uppers) THEN << "-" >> ELSE << >>)
        \o << ToLowerChar(title[i]) >>])

\* the text of the statement's last @docsCategory tag
CategoryTextOf(statement) ==
    LET i == CHOOSE n \in CategoryTags(statement) :
                 \A m \in CategoryTags(statement) : m <= n
    IN  IF statement.tags[i].comment.defined
        THEN statement.tags[i].comment.text ELSE << >>

\* no statement mapped after the k-th registers the k-th statement's title
LastMappedOfName(k) ==
    \A n \in MappedStatements :
        (n > k /\ statements[n].statement.name = statements[k].statement.name)
            => Undocumented(statements[n].statement)

ShippingMethodQuote ==
    << "S", "h", "i", "p", "p", "i", "n", "g", "M", "e", "t", "h", "o", "d",
       "Q", "u", "o", "t", "e" >>

\* C8: every mapped interface that carries a category tag has exactly one
\* record; the record's fileName is the title with a hyphen before each
\* capital after the first character, in lower case (ShippingMethodQuote
\* gives shipping-method-quote); the index entry of the title is the
\* category, a slash and that fileName, and once its turn of the write loop
\* has run the file of that fileName with .md is in the category's directory.
C8_FileNameIsSlug ==
    /\ fileNameOf(ShippingMethodQuote)
           = << "s", "h", "i", "p", "p", "i", "n", "g", "-", "m", "e", "t",
                "h", "o", "d", "-", "q", "u", "o", "t", "e" >>
    /\ \A k \in MappedStatements :
          LET st == statements[k].statement
              records == { i \in DOMAIN declarationInfos :
                              RecordOf(declarationInfos[i], k) }
          IN  (st.kind = "interface" /\ CarriesCategoryTag(st)) =>
                  /\ Cardinality(records) = 1
                  /\ \A i \in records :
                        /\ declarationInfos[i].title = st.name
                        /\ declarationInfos[i].fileName = Slug(st.name)
                        /\ i \in WrittenInfos =>
                              (IF CategoryTextOf(st) = << >>
                               THEN << Slug(st.name) \o MdExt >>
                               ELSE << CategoryTextOf(st), Slug(st.name) \o MdExt >>)
                                  \in DOMAIN files
                  /\ LastMappedOfName(k) =>
                        MapGet(globalTypeMap, st.name)
                            = CategoryTextOf(st) \o << "/" >> \o Slug(st.name)

\* the pass over interface ABc of category c has completed: the index holds
\* c/a-bc and the file c/a-bc.md is written
C8_Witness ==
    /\ PassCompleted
    /\ Len(statements) = 1
    /\ statements[1].statement.kind = "interface"
    /\ statements[1].statement.name = << "A", "B", "c" >>
    /\ Len(declarationInfos) = 1
    /\ MapGet(globalTypeMap, << "A", "B", "c" >>)
           = << "c", "/", "a", "-", "b", "c" >>
    /\ << CategoryC, << "a", "-", "b", "c", ".", "m", "d" >> >> \in DOMAIN files

-----------------------------------------------------------------------------
(* C9 *)

WeightTags(statement) ==
    { i \in DOMAIN statement.tags : statement.tags[i].tagName = "docsWeight" }

\* an optional sign and then digits, at least one
IsIntegerText(text) ==
    LET body == IF text # << >> /\ Head(text) \in {"+", "-"}
                THEN Tail(text) ELSE text
    IN  body # << >> /\ \A i \in DOMAIN body : body[i] \in Range(Digits)

IntegerOfText(text) ==
    IF Head(text) = "-" THEN 0 - DigitsValue(Tail(text), 0)
    ELSE IF Head(text) = "+" THEN DigitsValue(Tail(text), 0)
    ELSE DigitsValue(text, 0)

\* after an optional sign the text starts with a digit
StartsWithInteger(text) ==
    LET body == IF text # << >> /\ Head(text) \in {"+", "-"}
                THEN Tail(text) ELSE text
    IN  body # << >> /\ body[1] \in Range(Digits)

\* the text of the statement's last @docsWeight tag
WeightTextOf(statement) ==
    LET i == CHOOSE n \in WeightTags(statement) :
                 \A m \in WeightTags(statement) : m <= n
    IN  IF statement.tags[i].comment.defined
        THEN statement.tags[i].comment.text ELSE << >>

\* C9 as stated: the weight of every record is an integer: 10 without a
\* weight tag, the tag's integer when the tag holds one, and 10 when the
\* tag's text is empty or does not start with an integer.
C9_WeightIsInteger ==
    \A i \in DOMAIN declarationInfos :
        declarationInfos[i].kind # "undefined" =>
            LET st == StatementOf(declarationInfos[i])
                weight == declarationInfos[i].weight
            IN  /\ ~weight.nan
                /\ WeightTags(st) = {} => weight.val = 10
                /\ (WeightTags(st) # {} /\ IsIntegerText(WeightTextOf(st)))
                       => weight.val = IntegerOfText(WeightTextOf(st))
                /\ (WeightTags(st) # {} /\ ~StartsWithInteger(WeightTextOf(st)))
                       => weight.val = 10

-----------------------------------------------------------------------------
(* renderType on its own *)

ProbeAlphabet == { "A", "b", "|" }

ProbeTypes == SeqsUpTo(ProbeAlphabet, MaxTextLen)

ProbeEntry(title) ==
    [key |-> title, val |-> CategoryC \o << "/" >> \o fileNameOf(title)]

ProbeMaps ==
    { << ProbeEntry(<< "A" >>) >>,
      << ProbeEntry(TitleAb) >>,
      << ProbeEntry(<< "A" >>), ProbeEntry(TitleAb) >>,
      << ProbeEntry(TitleAb), ProbeEntry(<< "A" >>) >> }

InitRenderType ==
    /\ sources = [f \in Files |-> << >>]
    /\ watchMode = FALSE
    /\ pc = "probe"
    /\ filePaths = << >>
    /\ statements = << >>
    /\ cursor = 0
    /\ declarationInfos = << >>
    /\ globalTypeMap = << >>
    /\ files = EmptyTree.files
    /\ dirs = EmptyTree.dirs
    /\ clock = 1
    /\ passes = 0
    /\ failed = "none"
    /\ \E type \in ProbeTypes, map \in ProbeMaps :
          probe = [ fn |-> "renderType", type |-> type, knownTypeMap |-> map,
                    result |-> << >>, done |-> FALSE ]

\* renderType(type, knownTypeMap) is called
CallRenderType ==
    /\ probe.fn = "renderType"
    /\ ~probe.done
    /\ probe' = [probe EXCEPT !.result = renderType(probe.type, probe.knownTypeMap),
                              !.done = TRUE]
    /\ UNCHANGED << sources, watchMode, pc, filePaths, statements, cursor,
                    declarationInfos, globalTypeMap, files, dirs, clock,
                    passes, failed >>

SpecRenderType == InitRenderType /\ [][CallRenderType]_vars

-----------------------------------------------------------------------------
(* C7 *)

RECURSIVE LinkEvery(_, _, _)
\* the text with every occurrence of key, from the left, inside its own link
LinkEvery(text, key, val) ==
    LET i == IndexOf(text, key)
    IN  IF i = 0 THEN text
        ELSE SubSeq(text, 1, i - 1) \o Anchor(key, val)
             \o LinkEvery(SubSeq(text, i + Len(key), Len(text)), key, val)

\* C7 as stated: with one registered title that occurs in the type text,
\* renderType returns the text with every occurrence of the title wrapped in
\* one link to the title's path.
C7_EveryOccurrenceLinked ==
    ( /\ probe.fn = "renderType"
      /\ probe.done
      /\ Len(probe.knownTypeMap) = 1
      /\ IndexOf(probe.type, probe.knownTypeMap[1].key) # 0 )
    => probe.result = LinkEvery(probe.type, probe.knownTypeMap[1].key,
                                probe.knownTypeMap[1].val)

=============================================================================
